---- MODULE Spec2Model ----
(***************************************************************************)
(* The file-lifecycle state machine of the vehicle image labeler           *)
(* (src/app.py): move_image, the four move endpoints, get_all_images and   *)
(* get_image_counts, over a model of the filesystem they act on.           *)
(*                                                                         *)
(* Strings.  A Python string is a sequence of tokens.  A token is one of   *)
(* the single characters "/", "\\", ".", "_", or a word: a non-empty run   *)
(* of other characters.  No string of the model has two adjacent words,    *)
(* so a string has one token sequence and every string operation of the    *)
(* code (replace, startswith, slicing, split, os.path) is computed on      *)
(* tokens exactly as the code computes it on characters:                   *)
(*   "unlabeled/Goa/1.jpg" is <<"unlabeled","/","Goa","/","1",".","jpg">>. *)
(* os.path is posixpath (the separator is "/").                            *)
(*                                                                         *)
(* Filesystem.  A file or directory is named by its resolved absolute      *)
(* path: the sequence of its components from "/", each component a string  *)
(* without "/".  files maps the path of every regular file to its content, *)
(* dirs is the set of directories ("/" itself is <<>> and always exists).  *)
(* There are no symbolic links.                                            *)
(***************************************************************************)
EXTENDS Naturals, Sequences, FiniteSets, TLC

VARIABLES files, dirs, served, last, threads

vars == <<files, dirs, served, last, threads>>

(***************************************************************************)
(* Bounds of the model.                                                    *)
(***************************************************************************)
\* at most this many files are on disk when the server starts
MaxInitFiles == 2

\* at most this many requests are served
MaxRequests == 1

\* labels of up to this many characters are tried on the label sanitization
MaxLabelLen == 3

\* an image is moved at most this many times in a row
MaxChain == 3

(***************************************************************************)
(* Python values.                                                          *)
(***************************************************************************)
\* Python's None where a string is expected (no string holds this token)
None == <<"<None>">>

\* The outcome of a path lookup that fails (ENOENT / ENOTDIR)
NoEnt == << <<"<noent>">> >>

(***************************************************************************)
(* str methods.                                                            *)
(***************************************************************************)
\* s.replace(a, b) for one-character a and b
Replace(s, a, b) == [i \in 1..Len(s) |-> IF s[i] = a THEN b ELSE s[i]]

\* s.startswith(p)
StartsWith(s, p) == Len(s) >= Len(p) /\ SubSeq(s, 1, Len(p)) = p

\* s.endswith(p)
EndsWith(s, p) == Len(s) >= Len(p) /\ SubSeq(s, Len(s) - Len(p) + 1, Len(s)) = p

\* s[n:]
From(s, n) == SubSeq(s, n + 1, Len(s))

\* s.rfind(c) as a 1-based index, 0 when c does not occur (Python's -1)
RFind(s, c) ==
    IF \E i \in 1..Len(s) : s[i] = c
    THEN CHOOSE i \in 1..Len(s) : s[i] = c /\ \A j \in (i+1)..Len(s) : s[j] # c
    ELSE 0

RECURSIVE SplitAcc(_, _, _)
SplitAcc(s, cur, acc) ==
    IF s = <<>> THEN Append(acc, cur)
    ELSE IF Head(s) = "/" THEN SplitAcc(Tail(s), <<>>, Append(acc, cur))
    ELSE SplitAcc(Tail(s), Append(cur, Head(s)), acc)

\* s.split('/')
Split(s) == SplitAcc(s, <<>>, <<>>)

RECURSIVE JoinSep(_)
\* '/'.join(comps)
JoinSep(comps) ==
    IF comps = <<>> THEN <<>>
    ELSE IF Len(comps) = 1 THEN comps[1]
    ELSE comps[1] \o <<"/">> \o JoinSep(Tail(comps))

\* str.lower() of one token
LowerTok(t) ==
    CASE t = "JPG" -> "jpg"
      [] t = "A" -> "a"
      [] t = "B" -> "b"
      [] t = "KA01" -> "ka01"
      [] t = "Goa" -> "goa"
      [] OTHER -> t

\* s.lower()
Lower(s) == [i \in 1..Len(s) |-> LowerTok(s[i])]

(***************************************************************************)
(* os.path (posixpath).                                                    *)
(***************************************************************************)
\* os.path.join(a, b)
Join(a, b) ==
    IF StartsWith(b, <<"/">>) THEN b
    ELSE IF a = <<>> \/ EndsWith(a, <<"/">>) THEN a \o b
    ELSE a \o <<"/">> \o b

\* os.path.basename(p)
Basename(p) == From(p, RFind(p, "/"))

RECURSIVE RStripSep(_)
\* s.rstrip('/')
RStripSep(s) ==
    IF s # <<>> /\ s[Len(s)] = "/" THEN RStripSep(SubSeq(s, 1, Len(s) - 1)) ELSE s

\* os.path.dirname(p)
Dirname(p) ==
    LET head == SubSeq(p, 1, RFind(p, "/"))
    IN IF head # <<>> /\ \E i \in 1..Len(head) : head[i] # "/"
       THEN RStripSep(head)
       ELSE head

\* os.path.splitext(p): <<root, ext>>.  The extension starts at the last "."
\* of the last component, unless only dots precede it there.
SplitExt(p) ==
    LET sepIndex == RFind(p, "/")
        dotIndex == RFind(p, ".")
    IN IF dotIndex > sepIndex
          /\ \E k \in (sepIndex + 1)..(dotIndex - 1) : p[k] # "."
       THEN <<SubSeq(p, 1, dotIndex - 1), From(p, dotIndex - 1)>>
       ELSE <<p, <<>>>>

RECURSIVE NormComps(_, _, _)
\* the loop of os.path.normpath over the components of the path
NormComps(comps, new_comps, initial_slashes) ==
    IF comps = <<>> THEN new_comps
    ELSE LET comp == Head(comps)
             n == Len(new_comps)
         IN IF comp \in {<<>>, <<".">>}
            THEN NormComps(Tail(comps), new_comps, initial_slashes)
            ELSE IF comp # <<".", ".">>
                    \/ (initial_slashes = 0 /\ n = 0)
                    \/ (n > 0 /\ new_comps[n] = <<".", ".">>)
            THEN NormComps(Tail(comps), Append(new_comps, comp), initial_slashes)
            ELSE IF n > 0
            THEN NormComps(Tail(comps), SubSeq(new_comps, 1, n - 1), initial_slashes)
            ELSE NormComps(Tail(comps), new_comps, initial_slashes)

\* os.path.normpath(path)
NormPath(path) ==
    IF path = <<>> THEN <<".">>
    ELSE LET initial_slashes ==
                 IF ~StartsWith(path, <<"/">>) THEN 0
                 ELSE IF StartsWith(path, <<"/", "/">>) /\ ~StartsWith(path, <<"/", "/", "/">>)
                 THEN 2 ELSE 1
             joined == JoinSep(NormComps(Split(path), <<>>, initial_slashes))
             out == [i \in 1..initial_slashes |-> "/"] \o joined
         IN IF out = <<>> THEN <<".">> ELSE out

\* [x for x in s.split('/') if x]
NonEmptyComps(s) == SelectSeq(Split(s), LAMBDA c : c # <<>>)

\* len(os.path.commonprefix([a, b])) for two component lists
CommonLen(a, b) ==
    LET m == IF Len(a) < Len(b) THEN Len(a) ELSE Len(b)
        agree == {k \in 0..m : \A j \in 1..k : a[j] = b[j]}
    IN CHOOSE k \in agree : \A j \in agree : j <= k

\* os.path.relpath(path, start), both absolute
RelPath(path, start) ==
    LET start_list == NonEmptyComps(NormPath(start))
        path_list == NonEmptyComps(NormPath(path))
        i == CommonLen(start_list, path_list)
        rel_list == [k \in 1..(Len(start_list) - i) |-> <<".", ".">>]
                    \o SubSeq(path_list, i + 1, Len(path_list))
    IN IF rel_list = <<>> THEN <<".">> ELSE JoinSep(rel_list)

(***************************************************************************)
(* The configured directories (src/app.py:61-68), with the application in  *)
(* /app.                                                                   *)
(***************************************************************************)
current_dir == <<"/", "app">>

BASE_DIR == Join(current_dir, <<"datasets">>)

UNLABELED == Join(BASE_DIR, <<"unlabeled">>)

VALID_VEHICLE ==
    Join(Join(BASE_DIR, <<"valid">>), <<"vehicle", "_", "images", "_", "with", "_", "label">>)

SKIPPED_VEHICLE == Join(Join(BASE_DIR, <<"skipped">>), <<"vehicle", "_", "images">>)

INVALID_VEHICLE == Join(Join(BASE_DIR, <<"invalid">>), <<"vehicle", "_", "images">>)

(***************************************************************************)
(* The filesystem: what the kernel does with a path string.                *)
(***************************************************************************)
Parent(c) == IF c = <<>> THEN <<>> ELSE SubSeq(c, 1, Len(c) - 1)

IsDir(c, ds) == c = <<>> \/ c \in ds

RECURSIVE WalkFrom(_, _, _)
\* Resolve the components one by one from directory cur; every component is
\* looked up in a directory, so the path walked so far must be a directory.
WalkFrom(comps, cur, ds) ==
    IF comps = <<>> THEN cur
    ELSE IF ~IsDir(cur, ds) THEN NoEnt
    ELSE LET c == Head(comps)
         IN WalkFrom(Tail(comps),
                     IF c \in {<<>>, <<".">>} THEN cur
                     ELSE IF c = <<".", ".">> THEN Parent(cur)
                     ELSE Append(cur, c),
                     ds)

\* The file or directory an absolute path string names, NoEnt if the walk fails
Resolve(p, ds) == WalkFrom(Split(p), <<>>, ds)

\* os.path.exists(p)
Exists(p, fs, ds) ==
    LET r == Resolve(p, ds) IN r # NoEnt /\ (IsDir(r, ds) \/ r \in DOMAIN fs)

\* The absolute path string of a resolved path
ToStr(c) == <<"/">> \o JoinSep(c)

IsPrefix(a, b) == Len(a) <= Len(b) /\ SubSeq(b, 1, Len(a)) = a

RECURSIVE MakeFrom(_, _, _, _)
\* os.makedirs(p, exist_ok=True): [ok, dirs].  Every missing directory on the
\* way is created; a component that is a regular file raises.
MakeFrom(comps, cur, fs, ds) ==
    IF comps = <<>> THEN [ok |-> TRUE, dirs |-> ds]
    ELSE LET c == Head(comps)
             nxt == IF c \in {<<>>, <<".">>} THEN cur
                    ELSE IF c = <<".", ".">> THEN Parent(cur)
                    ELSE Append(cur, c)
         IN IF nxt \in DOMAIN fs THEN [ok |-> FALSE, dirs |-> ds]
            ELSE MakeFrom(Tail(comps), nxt, fs, IF nxt = <<>> THEN ds ELSE ds \cup {nxt})

MakeDirs(p, fs, ds) == MakeFrom(Split(p), <<>>, fs, ds)

\* The function f without the keys in ks
Without(f, ks) == [k \in DOMAIN f \ ks |-> f[k]]

\* os.rename(src, dst) of the resolved paths, dst not existing: a regular file
\* is renamed, a directory is renamed with everything below it.
Rename(src, dst, fs, ds) ==
    LET under(c) == IsPrefix(src, c)
        to(c) == dst \o SubSeq(c, Len(src) + 1, Len(c))
        moved == {c \in DOMAIN fs : under(c)}
        kept == DOMAIN fs \ moved
        target == {to(c) : c \in moved}
    IN [files |-> [c \in kept \cup target |->
                      IF c \in target
                      THEN fs[CHOOSE m \in moved : to(m) = c]
                      ELSE fs[c]],
        dirs |-> {c \in ds : ~under(c)} \cup {to(c) : c \in {d \in ds : under(d)}}]

(***************************************************************************)
(* The inventory scanner (src/app.py:70-87, 184-204).                      *)
(***************************************************************************)
\* file.lower().endswith(('.png', '.jpg', '.jpeg', '.gif'))
IsImageName(file) ==
    \E e \in {"png", "jpg", "jpeg", "gif"} : EndsWith(Lower(file), <<".", e>>)

\* The tokens of the model in the order of their first characters (ASCII);
\* no word is a prefix of another, so comparing strings token by token is
\* comparing them character by character.
TokenOrder ==
    <<".", "/", "1", "2", "A", "B", "Goa", "JPG", "KA01", "\\", "_",
      "app", "datasets", "images", "invalid", "jpg", "label", "notes",
      "outside", "skipped", "txt", "unlabeled", "valid", "vehicle", "with", "x">>

TokRank(t) == CHOOSE i \in 1..Len(TokenOrder) : TokenOrder[i] = t

\* a < b for Python strings
StrLess(a, b) ==
    \E k \in 0..Len(a) :
        /\ k <= Len(b)
        /\ \A j \in 1..k : a[j] = b[j]
        /\ \/ (k = Len(a) /\ k < Len(b))
           \/ (k < Len(a) /\ k < Len(b) /\ TokRank(a[k+1]) < TokRank(b[k+1]))

\* The orders in which os.scandir may yield the entries of a directory:
\* the documentation promises none.  Two are modelled: by name, ascending
\* and descending.
ScanOrders == {"asc", "desc"}

ScanBefore(a, b, order) == IF order = "asc" THEN StrLess(a, b) ELSE StrLess(b, a)

RECURSIVE Scan(_, _)
\* The names in set S as os.scandir yields them
Scan(S, order) ==
    IF S = {} THEN <<>>
    ELSE LET m == CHOOSE x \in S : \A y \in S : y = x \/ ScanBefore(x, y, order)
         IN <<m>> \o Scan(S \ {m}, order)

RECURSIVE Walk(_, _, _, _)
RECURSIVE WalkSubdirs(_, _, _, _, _)
\* os.walk(top), flattened to the files it yields, in its order: the files of
\* a directory, then each of its subdirectories in turn (top-down).
Walk(top, fs, ds, order) ==
    LET n == Len(top)
        names == {c[n + 1] : c \in {f \in DOMAIN fs : Parent(f) = top}}
        subs == {c[n + 1] : c \in {d \in ds : Parent(d) = top /\ d # <<>>}}
    IN [i \in 1..Cardinality(names) |-> Append(top, Scan(names, order)[i])]
       \o WalkSubdirs(top, Scan(subs, order), fs, ds, order)

WalkSubdirs(top, subdirs, fs, ds, order) ==
    IF subdirs = <<>> THEN <<>>
    ELSE Walk(Append(top, Head(subdirs)), fs, ds, order)
         \o WalkSubdirs(top, Tail(subdirs), fs, ds, order)

\* os.walk of a path string: nothing when it is not a directory
WalkPath(directory, fs, ds, order) ==
    LET top == Resolve(directory, ds)
    IN IF top # NoEnt /\ IsDir(top, ds) THEN Walk(top, fs, ds, order) ELSE <<>>

\* The files os.walk(directory) reaches: all those below it, when it is a
\* directory
FilesBelow(directory, fs, ds) ==
    LET top == Resolve(directory, ds)
    IN IF top # NoEnt /\ IsDir(top, ds)
       THEN {f \in DOMAIN fs : IsPrefix(top, f)}
       ELSE {}

\* count_images_in_directory counting the files of the directory itself only
\* (os.listdir in place of os.walk)
count_images_flat(directory, fs, ds) ==
    IF Exists(directory, fs, ds)
    THEN Cardinality({f \in FilesBelow(directory, fs, ds) :
                         /\ Parent(f) = Resolve(directory, ds)
                         /\ IsImageName(f[Len(f)])})
    ELSE 0

\* count_images_in_directory(directory)
count_images_in_directory(directory, fs, ds) ==
    IF Exists(directory, fs, ds)
    THEN Cardinality({f \in FilesBelow(directory, fs, ds) : IsImageName(f[Len(f)])})
    ELSE 0

\* get_image_counts()
get_image_counts(fs, ds) ==
    [unlabeled |-> count_images_in_directory(UNLABELED, fs, ds),
     valid |-> count_images_in_directory(VALID_VEHICLE, fs, ds),
     invalid |-> count_images_in_directory(INVALID_VEHICLE, fs, ds),
     skipped |-> count_images_in_directory(SKIPPED_VEHICLE, fs, ds)]

\* The path reference appended for one file found by the walk
ListedRef(f) ==
    Replace(NormPath(RelPath(Join(ToStr(Parent(f)), f[Len(f)]), BASE_DIR)), "\\", "/")

\* A listing of every file the walk finds, whatever its name
FolderImagesUnfiltered(folder_path, fs, ds, order) ==
    LET found == WalkPath(folder_path, fs, ds, order)
    IN [i \in 1..Len(found) |-> ListedRef(found[i])]

\* The part of the listing that one folder contributes
FolderImages(folder_path, fs, ds, order) ==
    LET found == SelectSeq(WalkPath(folder_path, fs, ds, order),
                           LAMBDA f : IsImageName(f[Len(f)]))
    IN [i \in 1..Len(found) |-> ListedRef(found[i])]

\* get_all_images(): the folders in the order of the dict literal
get_all_images(fs, ds, order) ==
    FolderImages(UNLABELED, fs, ds, order)
    \o FolderImages(VALID_VEHICLE, fs, ds, order)
    \o FolderImages(INVALID_VEHICLE, fs, ds, order)
    \o FolderImages(SKIPPED_VEHICLE, fs, ds, order)

\* The listing as a set of path references (the order left aside)
Listed(fs, ds) ==
    {ListedRef(f) :
        f \in {g \in FilesBelow(UNLABELED, fs, ds) \cup FilesBelow(VALID_VEHICLE, fs, ds)
                     \cup FilesBelow(INVALID_VEHICLE, fs, ds)
                     \cup FilesBelow(SKIPPED_VEHICLE, fs, ds) : IsImageName(g[Len(g)])}}

(***************************************************************************)
(* get_base_folder (src/app.py:89-101).                                    *)
(***************************************************************************)
get_base_folder(path0) ==
    LET path == Replace(path0, "\\", "/")
    IN IF StartsWith(path, <<"valid", "/">>) THEN VALID_VEHICLE
       ELSE IF StartsWith(path, <<"invalid", "/">>) THEN INVALID_VEHICLE
       ELSE IF StartsWith(path, <<"skipped", "/">>) THEN SKIPPED_VEHICLE
       ELSE UNLABELED

(***************************************************************************)
(* move_image (src/app.py:104-174).                                        *)
(***************************************************************************)
\* A sanitization that turns the backslash into a slash, as the code does
\* with path references, after it has replaced the slashes
SafeLabelSlashed(new_label) == Replace(Replace(new_label, "/", "_"), "\\", "/")

\* new_label.replace('/', '_').replace('\\', '_')
SafeLabel(new_label) == Replace(Replace(new_label, "/", "_"), "\\", "_")

\* A new filename built from every label that is given, the empty one too
NewFilenameOfAnyLabel(src_full_path, new_label) ==
    IF new_label # None
    THEN SafeLabel(new_label) \o SplitExt(src_full_path)[2]
    ELSE Basename(src_full_path)

\* A new filename that drops the extension when a label is given
NewFilenameBare(src_full_path, new_label) ==
    IF new_label # None /\ new_label # <<>>
    THEN SafeLabel(new_label)
    ELSE Basename(src_full_path)

\* The new filename: the cleaned label and the extension, or the old name
NewFilename(src_full_path, new_label) ==
    IF new_label # None /\ new_label # <<>>
    THEN SafeLabel(new_label) \o SplitExt(src_full_path)[2]
    ELSE Basename(src_full_path)

\* s without the prefix p, when it starts with it
StripPrefix(s, p) == IF StartsWith(s, p) THEN From(s, Len(p)) ELSE s

VehicleImages == <<"vehicle", "_", "images", "/">>

VehicleImagesWithLabel == <<"vehicle", "_", "images", "_", "with", "_", "label", "/">>

\* RelativePath with the category segment left in place (the image would be
\* nested as <folder>/unlabeled/<sub>)
RelativePathNested(normalized_path) == normalized_path

\* RelativePath with the wrapper folders left in place
RelativePathWrapped(normalized_path) ==
    IF \E c \in {"unlabeled", "valid", "invalid", "skipped"} :
          StartsWith(normalized_path, <<c, "/">>)
    THEN From(normalized_path, 2)
    ELSE normalized_path

\* The path below the category folder the image is in
RelativePath(normalized_path) ==
    IF StartsWith(normalized_path, <<"unlabeled", "/">>)
    THEN From(normalized_path, 2)
    ELSE IF StartsWith(normalized_path, <<"valid", "/">>)
    THEN StripPrefix(From(normalized_path, 2), VehicleImagesWithLabel)
    ELSE IF StartsWith(normalized_path, <<"invalid", "/">>)
    THEN StripPrefix(From(normalized_path, 2), VehicleImages)
    ELSE IF StartsWith(normalized_path, <<"skipped", "/">>)
    THEN StripPrefix(From(normalized_path, 2), VehicleImages)
    ELSE normalized_path

\* The steps of move_image at which the operating system may refuse
Faults == {"none", "makedirs", "remove", "move"}

\* What move_image leaves behind and returns.  refused names the step that
\* would have worked and that the operating system refused ("none": it refused
\* nothing), replaced tells whether os.remove deleted a file at the destination.
Moved(ret, fs, ds, outcome, src, dst, replaced, refused) ==
    [ret |-> ret, files |-> fs, dirs |-> ds, outcome |-> outcome,
     src |-> src, dst |-> dst, replaced |-> replaced, refused |-> refused]

\* shutil.move(src_full_path, dst_full_path), the destination not existing,
\* and the return statement after it
MoveStep(src_full_path, dst_full_path, fs, ds, fault, replaced) ==
    LET src == Resolve(src_full_path, ds)
        dst == Resolve(dst_full_path, ds)
    IN IF \/ ~Exists(src_full_path, fs, ds)
          \/ dst = NoEnt
          \/ (IsDir(src, ds) /\ IsPrefix(src, dst))
       THEN Moved(None, fs, ds, "move_failed", src, dst, replaced, "none")
       ELSE IF fault = "move"
       THEN Moved(None, fs, ds, "move_failed", src, dst, replaced, "move")
       ELSE LET r == Rename(src, dst, fs, ds)
            IN Moved(Replace(RelPath(dst_full_path, BASE_DIR), "\\", "/"),
                     r.files, r.dirs, "moved", src, dst, replaced, "none")

\* A collision policy that keeps the occupant: the move fails when something
\* is at the destination
RemoveStepKeeping(src_full_path, dst_full_path, fs, ds, fault) ==
    IF Exists(dst_full_path, fs, ds)
    THEN Moved(None, fs, ds, "remove_failed", Resolve(src_full_path, ds),
               Resolve(dst_full_path, ds), FALSE, "none")
    ELSE MoveStep(src_full_path, dst_full_path, fs, ds, fault, FALSE)

\* if os.path.exists(dst_full_path): os.remove(dst_full_path), and what follows
RemoveStep(src_full_path, dst_full_path, fs, ds, fault) ==
    LET src == Resolve(src_full_path, ds)
        dst == Resolve(dst_full_path, ds)
    IN IF Exists(dst_full_path, fs, ds)
       THEN IF IsDir(dst, ds)
            THEN Moved(None, fs, ds, "remove_failed", src, dst, FALSE, "none")
            ELSE IF fault = "remove"
            THEN Moved(None, fs, ds, "remove_failed", src, dst, FALSE, "remove")
            ELSE MoveStep(src_full_path, dst_full_path, Without(fs, {dst}), ds, fault, TRUE)
       ELSE MoveStep(src_full_path, dst_full_path, fs, ds, fault, FALSE)

\* move_image making the destination directory before it looks for the source
move_image_makedirs_first(source_path, dest_dir, new_label, fs, ds, fault) ==
    LET normalized_path == Replace(source_path, "\\", "/")
        src_full_path == Join(BASE_DIR, normalized_path)
        src == Resolve(src_full_path, ds)
        dest_subdir == Join(dest_dir, Dirname(RelativePath(normalized_path)))
        mk == MakeDirs(dest_subdir, fs, ds)
        dst_full_path == Join(dest_subdir, NewFilename(src_full_path, new_label))
    IN IF ~mk.ok \/ fault = "makedirs"
       THEN Moved(None, fs, ds, "makedirs_failed", src, NoEnt, FALSE, "none")
       ELSE IF ~Exists(src_full_path, fs, ds)
       THEN Moved(None, fs, mk.dirs, "not_found", src, NoEnt, FALSE, "none")
       ELSE RemoveStep(src_full_path, dst_full_path, fs, mk.dirs, fault)

\* move_image(source_path, dest_dir, new_label): the value returned and the
\* filesystem left behind, fault naming the step the operating system refuses
move_image(source_path, dest_dir, new_label, fs, ds, fault) ==
    LET normalized_path == Replace(source_path, "\\", "/")
        src_full_path == Join(BASE_DIR, normalized_path)
        src == Resolve(src_full_path, ds)
    IN IF ~Exists(src_full_path, fs, ds)
       THEN Moved(None, fs, ds, "not_found", src, NoEnt, FALSE, "none")
       ELSE LET new_filename == NewFilename(src_full_path, new_label)
                relative_path == RelativePath(normalized_path)
                dest_subdir == Join(dest_dir, Dirname(relative_path))
                mk == MakeDirs(dest_subdir, fs, ds)
                dst_full_path == Join(dest_subdir, new_filename)
            IN IF ~mk.ok
               THEN Moved(None, fs, mk.dirs, "makedirs_failed", src, NoEnt, FALSE, "none")
               ELSE IF fault = "makedirs"
               THEN Moved(None, fs, ds, "makedirs_failed", src, NoEnt, FALSE, "makedirs")
               ELSE RemoveStep(src_full_path, dst_full_path, fs, mk.dirs, fault)

(***************************************************************************)
(* The state: the filesystem (files, dirs), the number of requests served, *)
(* and the last request with its response (last).  last.before is the      *)
(* filesystem the request found.                                           *)
(***************************************************************************)
\* Resolved paths of the model's files
Unl(sub, file) == <<<<"app">>, <<"datasets">>, <<"unlabeled">>>> \o sub \o <<file>>

Val(sub, file) ==
    <<<<"app">>, <<"datasets">>, <<"valid">>,
      <<"vehicle", "_", "images", "_", "with", "_", "label">>>> \o sub \o <<file>>

Inv(sub, file) ==
    <<<<"app">>, <<"datasets">>, <<"invalid">>, <<"vehicle", "_", "images">>>>
    \o sub \o <<file>>

Goa == <<<<"Goa">>>>

\* The files that may be on disk when the server starts, with their contents
InitFiles ==
    (Unl(Goa, <<"1", ".", "jpg">>) :> 1)
    @@ (Inv(Goa, <<"1", ".", "jpg">>) :> 3)
    @@ (Val(Goa, <<"KA01", ".", "jpg">>) :> 4)
    @@ (<<<<"app">>, <<"outside">>, <<"x", ".", "jpg">>>> :> 5)
    @@ (Unl(Goa, <<"notes", ".", "txt">>) :> 6)
    @@ (Unl(<<>>, <<"1", ".", "JPG">>) :> 7)
    @@ (Unl(Goa, <<".", "jpg">>) :> 2)

\* The directories above a file
Ancestors(c) == {SubSeq(c, 1, k) : k \in 1..(Len(c) - 1)}

\* The four folders, made at start-up (src/app.py:286-289)
StartupDirs ==
    LET d1 == MakeDirs(UNLABELED, <<>>, {}).dirs
        d2 == MakeDirs(VALID_VEHICLE, <<>>, d1).dirs
        d3 == MakeDirs(SKIPPED_VEHICLE, <<>>, d2).dirs
    IN MakeDirs(INVALID_VEHICLE, <<>>, d3).dirs

\* status is the HTTP status, image_bytes tells whether the body is an image
NoResponse ==
    [success |-> FALSE, new_path |-> None, counts |-> <<>>, images |-> <<>>,
     status |-> 0, image_bytes |-> FALSE]

\* What the detector did for the request: the outcome of
\* run_detection_on_image and the number of times the model was run
NoDetection == [outcome |-> "not_run", calls |-> 0]

NoMove ==
    [ret |-> None, outcome |-> "none", src |-> NoEnt, dst |-> NoEnt,
     replaced |-> FALSE, refused |-> "none"]

\* No request is being served
Idle ==
    [op |-> "none", img |-> None, label |-> None, dest_dir |-> None,
     move |-> NoMove, detection |-> NoDetection, response |-> NoResponse,
     before |-> [files |-> <<>>, dirs |-> {}]]

\* No request is inside move_image: the requests are served one after another
NoThreads == <<>>

Init ==
    \E S \in SUBSET DOMAIN InitFiles :
        /\ Cardinality(S) <= MaxInitFiles
        /\ files = [c \in S |-> InitFiles[c]]
        /\ dirs = StartupDirs \cup UNION {Ancestors(c) : c \in S}
        /\ served = 0
        /\ last = Idle
        /\ threads = NoThreads

\* The labels a request may carry
Labels == { <<"KA01">>, <<"A", "/", "B", "\\", "1">>, <<>> }

\* Path references a request may carry besides the listed ones: an image that
\* may or may not exist, written with backslashes, a reference without a
\* category segment, a reference that leaves the base directory, a file that
\* is no image.
ExtraRefs ==
    { <<"unlabeled", "\\", "Goa", "\\", "1", ".", "jpg">>,
      <<"Goa", "/", "1", ".", "jpg">>,
      <<"unlabeled", "/", ".", ".", "/", ".", ".", "/", "outside", "/", "x", ".", "jpg">>,
      <<"unlabeled", "/", "Goa", "/", "notes", ".", "txt">> }

\* The references a client may send: those the listing shows, and the others
Refs == Listed(files, dirs) \cup ExtraRefs

\* A request is served when none is being served and the bound allows it
CanServe == last = Idle /\ served < MaxRequests

\* A move endpoint: move_image (the operating system may refuse at any of
\* its steps), then get_image_counts, then the response
MoveServed(op, img, label, new_label, dest_dir) ==
    /\ \E m \in {move_image(img, dest_dir, new_label, files, dirs, fault) : fault \in Faults} :
       /\ files' = m.files
       /\ dirs' = m.dirs
       /\ served' = served + 1
       /\ UNCHANGED threads
       /\ last' = [op |-> op, img |-> img, label |-> label, dest_dir |-> dest_dir,
                   move |-> [ret |-> m.ret, outcome |-> m.outcome, src |-> m.src,
                             dst |-> m.dst, replaced |-> m.replaced,
                             refused |-> m.refused],
                   detection |-> NoDetection,
                   response |-> [NoResponse EXCEPT
                                    !.success = TRUE, !.new_path = m.ret,
                                    !.counts = get_image_counts(m.files, m.dirs),
                                    !.status = 200],
                   before |-> [files |-> files, dirs |-> dirs]]

\* ... served when no request is being served and the bound allows it
MoveEndpoint(op, img, label, new_label, dest_dir) ==
    CanServe /\ MoveServed(op, img, label, new_label, dest_dir)

\* POST /images/label
update_label(img, label) ==
    MoveEndpoint("update_label", img, label, label, VALID_VEHICLE)

\* The label of POST /images/valid: the one given, or the name of the file
ValidLabel(img, label) ==
    IF label # None /\ label # <<>> THEN label ELSE SplitExt(Basename(img))[1]

\* POST /images/valid
valid_image(img, label) ==
    MoveEndpoint("valid_image", img, label, ValidLabel(img, label), VALID_VEHICLE)

\* POST /images/invalid
invalid_image(img) ==
    MoveEndpoint("invalid_image", img, None, None, INVALID_VEHICLE)

\* POST /images/skip
skip_image(img) ==
    MoveEndpoint("skip_image", img, None, None, SKIPPED_VEHICLE)

\* A read-only endpoint and its response
ReadEndpoint(op, response) ==
    /\ CanServe
    /\ served' = served + 1
    /\ last' = [op |-> op, img |-> None, label |-> None, dest_dir |-> None,
                move |-> NoMove, detection |-> NoDetection, response |-> response,
                before |-> [files |-> files, dirs |-> dirs]]
    /\ UNCHANGED <<files, dirs, threads>>

\* GET /images/all
all_images(order) ==
    ReadEndpoint("get_all_images",
                 [NoResponse EXCEPT !.images = get_all_images(files, dirs, order),
                                    !.status = 200])

\* GET /images/counts
get_counts ==
    ReadEndpoint("get_counts",
                 [NoResponse EXCEPT !.counts = get_image_counts(files, dirs),
                                    !.status = 200])

\* What run_detection_on_image and the saving of the crop can do: the image
\* cannot be opened (the model is not run), the model raises, it finds no
\* plate, it finds one, it finds one and saving the crop raises
Detections == {"open_raises", "raises", "none", "plate", "save_raises"}

\* The times the model is run in run_detection_on_image
DetectorCalls(det) == IF det \in {"not_run", "open_raises"} THEN 0 ELSE 1

\* A preview that answers 404 whenever no crop can be shown
PreviewNotFound(exists, det) ==
    IF exists /\ det = "plate"
    THEN [NoResponse EXCEPT !.status = 200, !.image_bytes = TRUE]
    ELSE [NoResponse EXCEPT !.status = 404]

\* The response of preview_crop, the path existing or not, the detection
\* ending as det
PreviewResponse(exists, det) ==
    IF ~exists THEN [NoResponse EXCEPT !.status = 404]
    ELSE IF det \in {"open_raises", "raises", "save_raises"}
    THEN [NoResponse EXCEPT !.status = 500]
    ELSE IF det = "plate"
    THEN [NoResponse EXCEPT !.status = 200, !.image_bytes = TRUE]
    ELSE [NoResponse EXCEPT !.status = 404]

\* GET /preview_crop/<filename>: a directory cannot be opened as an image
preview_crop(filename, det) ==
    LET full_path == Join(BASE_DIR, filename)
        exists == Exists(full_path, files, dirs)
        outcome == IF ~exists THEN "not_run"
                   ELSE IF IsDir(Resolve(full_path, dirs), dirs) THEN "open_raises"
                   ELSE det
    IN /\ CanServe
       /\ served' = served + 1
       /\ last' = [op |-> "preview_crop", img |-> filename, label |-> None,
                   dest_dir |-> None, move |-> NoMove,
                   detection |-> [outcome |-> outcome, calls |-> DetectorCalls(outcome)],
                   response |-> PreviewResponse(exists, outcome),
                   before |-> [files |-> files, dirs |-> dirs]]
       /\ UNCHANGED <<files, dirs, threads>>

\* The labels POST /images/valid may carry: none, or one
ValidLabels == {None, <<"KA01">>}

\* The operator receives the response; only then is the next request sent
\* (one operator, one action at a time)
receive_response ==
    /\ last # Idle
    /\ last' = Idle
    /\ UNCHANGED <<files, dirs, served, threads>>

Next ==
    \/ CanServe /\ \E img \in Refs, label \in Labels : update_label(img, label)
    \/ CanServe /\ \E img \in Refs, label \in ValidLabels : valid_image(img, label)
    \/ CanServe /\ \E img \in Refs : invalid_image(img)
    \/ CanServe /\ \E img \in Refs : skip_image(img)
    \/ \E order \in ScanOrders : all_images(order)
    \/ get_counts
    \/ CanServe /\ \E filename \in Refs, det \in Detections : preview_crop(filename, det)
    \/ receive_response

Spec == Init /\ [][Next]_vars

(***************************************************************************)
(* The label-producing endpoints on labels of every shape: one image,      *)
(* unlabeled/Goa/1.jpg, is labelled once, by POST /images/label or by      *)
(* POST /images/valid, with any string over the two separators, the        *)
(* underscore and a letter.                                                *)
(***************************************************************************)
LabelAlphabet == {"/", "\\", "_", "A"}

AnyLabels == UNION {[1..n -> LabelAlphabet] : n \in 0..MaxLabelLen}

LabelInit ==
    /\ files = (Unl(Goa, <<"1", ".", "jpg">>) :> 1)
    /\ dirs = StartupDirs \cup Ancestors(Unl(Goa, <<"1", ".", "jpg">>))
    /\ served = 0
    /\ last = Idle
    /\ threads = NoThreads

LabelNext ==
    \/ served = 0 /\ \E img \in Listed(files, dirs), label \in AnyLabels :
           update_label(img, label)
    \/ served = 0 /\ \E img \in Listed(files, dirs), label \in AnyLabels :
           valid_image(img, label)
    \/ receive_response

LabelSpec == LabelInit /\ [][LabelNext]_vars

(***************************************************************************)
(* One image moved again and again: each request carries the reference the *)
(* previous response returned (the first one the listed reference), and    *)
(* the chain goes on as long as the moves succeed.                         *)
(***************************************************************************)
\* The subdirectories the image may start in: Goa, and one that is called as
\* a wrapper folder is
ChainSubs == {<<"Goa">>, <<"vehicle", "_", "images">>}

ChainInit ==
    \E name \in {<<"1", ".", "jpg">>, <<".", "jpg">>}, sub \in ChainSubs :
        /\ files = (Unl(<<sub>>, name) :> 1)
        /\ dirs = StartupDirs \cup Ancestors(Unl(<<sub>>, name))
        /\ served = 0
        /\ last = Idle
        /\ threads = NoThreads

\* The reference the client holds: the listed one, then the latest returned
ChainRefs ==
    IF last = Idle THEN Listed(files, dirs)
    ELSE IF last.move.ret # None THEN {last.move.ret}
    ELSE {}

ChainLabels == { <<"KA01">>, <<"A", "/", "B", "\\", "1">> }

chain_label ==
    \E img \in ChainRefs, label \in ChainLabels :
        MoveServed("update_label", img, label, label, VALID_VEHICLE)

chain_valid ==
    \E img \in ChainRefs :
        MoveServed("valid_image", img, None, ValidLabel(img, None), VALID_VEHICLE)

chain_invalid ==
    \E img \in ChainRefs : MoveServed("invalid_image", img, None, None, INVALID_VEHICLE)

chain_skip ==
    \E img \in ChainRefs : MoveServed("skip_image", img, None, None, SKIPPED_VEHICLE)

ChainNext ==
    /\ served < MaxChain
    /\ \/ chain_label
       \/ chain_valid
       \/ chain_invalid
       \/ chain_skip

ChainSpec == ChainInit /\ [][ChainNext]_vars

(***************************************************************************)
(* Two requests for the same image served at once (app.run serves every    *)
(* request on a thread of its own).  Each thread walks through the         *)
(* filesystem steps of move_image; the steps of the two interleave freely. *)
(***************************************************************************)
Threads == {1, 2}

\* The requests that may race: the endpoint and the label it carries
RaceRequests ==
    { [op |-> "update_label", label |-> <<"KA01">>],
      [op |-> "valid_image", label |-> None],
      [op |-> "invalid_image", label |-> None],
      [op |-> "skip_image", label |-> None] }

\* The arguments the endpoint hands to move_image
RaceDestDir(req) ==
    IF req.op \in {"update_label", "valid_image"} THEN VALID_VEHICLE
    ELSE IF req.op = "invalid_image" THEN INVALID_VEHICLE
    ELSE SKIPPED_VEHICLE

RaceNewLabel(req, img) ==
    IF req.op = "update_label" THEN req.label
    ELSE IF req.op = "valid_image" THEN ValidLabel(img, req.label)
    ELSE None

\* A thread entering move_image; content is what the image file holds
Entering(req, img, content) ==
    [pc |-> "check_source", op |-> req.op, img |-> img,
     dest_dir |-> RaceDestDir(req), new_label |-> RaceNewLabel(req, img),
     content |-> content, ret |-> None]

RaceInit ==
    \E S \in SUBSET DOMAIN InitFiles :
        /\ Cardinality(S) <= MaxInitFiles
        /\ files = [c \in S |-> InitFiles[c]]
        /\ dirs = StartupDirs \cup UNION {Ancestors(c) : c \in S}
        /\ served = 0
        /\ last = Idle
        /\ \E img \in Listed(files, dirs), r1 \in RaceRequests, r2 \in RaceRequests :
              LET content == files[Resolve(Join(BASE_DIR, img), dirs)]
              IN threads = <<Entering(r1, img, content), Entering(r2, img, content)>>

\* The locals of move_image in thread t
SrcFullPath(t) == Join(BASE_DIR, Replace(threads[t].img, "\\", "/"))

DestSubdir(t) ==
    Join(threads[t].dest_dir,
         Dirname(RelativePath(Replace(threads[t].img, "\\", "/"))))

DstFullPath(t) ==
    Join(DestSubdir(t), NewFilename(SrcFullPath(t), threads[t].new_label))

Goto(t, pc) == threads' = [threads EXCEPT ![t].pc = pc]

Return(t, ret) == threads' = [threads EXCEPT ![t].pc = "done", ![t].ret = ret]

\* if not os.path.exists(src_full_path): return None
check_source(t) ==
    /\ threads[t].pc = "check_source"
    /\ IF Exists(SrcFullPath(t), files, dirs)
       THEN Goto(t, "make_dirs")
       ELSE Return(t, None)
    /\ UNCHANGED <<files, dirs, served, last>>

\* os.makedirs(dest_subdir, exist_ok=True)
make_dirs(t) ==
    /\ threads[t].pc = "make_dirs"
    /\ LET mk == MakeDirs(DestSubdir(t), files, dirs)
       IN /\ dirs' = mk.dirs
          /\ IF mk.ok THEN Goto(t, "check_destination") ELSE Return(t, None)
    /\ UNCHANGED <<files, served, last>>

\* if os.path.exists(dst_full_path):
check_destination(t) ==
    /\ threads[t].pc = "check_destination"
    /\ IF Exists(DstFullPath(t), files, dirs)
       THEN Goto(t, "remove_destination")
       ELSE Goto(t, "move_file")
    /\ UNCHANGED <<files, dirs, served, last>>

\* os.remove(dst_full_path): it raises unless a regular file is there
remove_destination(t) ==
    /\ threads[t].pc = "remove_destination"
    /\ LET dst == Resolve(DstFullPath(t), dirs)
       IN IF dst \in DOMAIN files
          THEN files' = Without(files, {dst}) /\ Goto(t, "move_file")
          ELSE files' = files /\ Return(t, None)
    /\ UNCHANGED <<dirs, served, last>>

\* shutil.move(src_full_path, dst_full_path) and the return statement; a file
\* that has appeared at the destination since the check is replaced
move_file(t) ==
    /\ threads[t].pc = "move_file"
    /\ LET m == MoveStep(SrcFullPath(t), DstFullPath(t), files, dirs, "none", FALSE)
       IN /\ files' = m.files
          /\ dirs' = m.dirs
          /\ Return(t, m.ret)
    /\ UNCHANGED <<served, last>>

RaceNext ==
    \/ \E t \in Threads : check_source(t)
    \/ \E t \in Threads : make_dirs(t)
    \/ \E t \in Threads : check_destination(t)
    \/ \E t \in Threads : remove_destination(t)
    \/ \E t \in Threads : move_file(t)

RaceSpec == RaceInit /\ [][RaceNext]_vars

(***************************************************************************)
(* The server started without the folders of the categories: the startup   *)
(* loop that makes them runs only when the file is run as a script         *)
(* (src/app.py:286-289); imported by a WSGI server, the application finds  *)
(* the folders that hold files, and move_image makes the others when they  *)
(* are first needed.  The requests are those of a client that names the    *)
(* images as the listing shows them.                                       *)
(***************************************************************************)
LazyInit ==
    \E S \in SUBSET DOMAIN InitFiles :
        /\ Cardinality(S) <= MaxInitFiles
        /\ files = [c \in S |-> InitFiles[c]]
        /\ dirs = UNION {Ancestors(c) : c \in S}
        /\ served = 0
        /\ last = Idle
        /\ threads = NoThreads

LazyNext ==
    \/ \E img \in Listed(files, dirs) : update_label(img, <<"KA01">>)
    \/ \E img \in Listed(files, dirs) : valid_image(img, None)
    \/ \E img \in Listed(files, dirs) : invalid_image(img)
    \/ \E img \in Listed(files, dirs) : skip_image(img)
    \/ \E order \in ScanOrders : all_images(order)
    \/ get_counts
    \/ receive_response

LazySpec == LazyInit /\ [][LazyNext]_vars

(***************************************************************************)
(* Vocabulary of the properties.                                           *)
(***************************************************************************)
MoveOps == {"update_label", "valid_image", "invalid_image", "skip_image"}

\* The last request was a move request
IsMove == last.op \in MoveOps

\* ... and move_image returned a new path reference
Succeeded == IsMove /\ last.move.ret # None

Categories == {"unlabeled", "valid", "invalid", "skipped"}

\* The folder of each category
Folder(c) ==
    CASE c = "unlabeled" -> UNLABELED
      [] c = "valid" -> VALID_VEHICLE
      [] c = "invalid" -> INVALID_VEHICLE
      [] c = "skipped" -> SKIPPED_VEHICLE

\* The file at resolved path f lies in category c
InCategory(f, c) == f # NoEnt /\ IsPrefix(NonEmptyComps(Folder(c)), f)

\* Counts and listing of the filesystem the last request found
CountsBefore == get_image_counts(last.before.files, last.before.dirs)

ListedBefore == Listed(last.before.files, last.before.dirs)

\* The source of the last move was a regular file
SrcWasFile == last.move.src \in DOMAIN last.before.files

\* A filename with a base name and a recognized extension (both as
\* os.path.splitext gives them: the file .jpg has the base name .jpg and no
\* extension)
HasImageExt(file) == IsImageName(file) /\ SplitExt(file)[2] # <<>>

\* The last request named its image as the listing shows it (with either
\* separator)
RequestedAsListed == Replace(last.img, "\\", "/") \in ListedBefore

\* The source of the last move was a file the listing shows, named as listed
SrcWasListed ==
    /\ SrcWasFile
    /\ IsImageName(last.move.src[Len(last.move.src)])
    /\ RequestedAsListed

\* ... and its name has a base name and a recognized extension
SrcWasImage == SrcWasListed /\ HasImageExt(last.move.src[Len(last.move.src)])

SrcWasImageIn(c) == SrcWasImage /\ InCategory(last.move.src, c)

\* The category the last move was to
DestCategory == CHOOSE c \in Categories : Folder(c) = last.dest_dir

\* Before the move, a file other than the source was at the destination path
DestWasOccupied ==
    /\ last.move.dst \in DOMAIN last.before.files
    /\ last.move.dst # last.move.src


(***************************************************************************)
(* C1.  A move is all-or-nothing for the source image.                     *)
(***************************************************************************)
\* C1: every call of move_image either returns a new path reference, and the
\* file is at the computed destination path and no longer at the source path,
\* or it returns None and the source file is still at its path, unmodified.
C1_AllOrNothing ==
    (IsMove /\ SrcWasFile) =>
        \/ /\ last.move.ret # None
           /\ last.move.dst \in DOMAIN files
           /\ files[last.move.dst] = last.before.files[last.move.src]
           /\ last.move.src \notin DOMAIN files
        \/ /\ last.move.ret = None
           /\ last.move.src \in DOMAIN files
           /\ files[last.move.src] = last.before.files[last.move.src]

\* The same with the requests left out whose destination path is the source
\* path itself: for all others the code is all-or-nothing, also when the
\* operating system refuses a step.
C1_AllOrNothingElsewhere ==
    (IsMove /\ SrcWasFile /\ last.move.dst # last.move.src) => C1_AllOrNothing

\* A request found the image at its path, returned None, and the image is gone
\* though the operating system refused nothing
C1_SourceDeleted ==
    /\ IsMove /\ SrcWasFile
    /\ last.move.ret = None /\ last.move.refused = "none"
    /\ last.move.src \notin DOMAIN files

\* A move failed at shutil.move after os.remove had deleted the occupant of
\* the destination, and the source is still in place
C1_FailedAfterDelete ==
    /\ IsMove /\ SrcWasFile
    /\ last.move.refused = "move" /\ last.move.replaced
    /\ last.move.src \in DOMAIN files

(***************************************************************************)
(* C2.  The subdirectory is preserved below the destination category.      *)
(***************************************************************************)
\* The last request successfully moved an image listed under unlabeled,
\* named by its listed reference unlabeled/<sub>/<name>.<ext>, <name> not empty
MovedFromUnlabeled ==
    /\ Succeeded
    /\ StartsWith(last.img, <<"unlabeled", "/">>)
    /\ HasImageExt(Basename(last.img))
    /\ last.img \in ListedBefore

\* <ext> of the returned reference is <ext> of the reference of the request
ExtKept == SplitExt(Basename(last.move.ret))[2] = SplitExt(Basename(last.img))[2]

\* <sub> of the reference unlabeled/<sub>/<name>.<ext>
SubOf(ref) == Dirname(From(ref, 2))

\* C2 as claimed: the returned reference is D/<sub>/<newname>.<ext>, the
\* subdirectory directly after the category segment.
C2_SubdirAfterCategory ==
    MovedFromUnlabeled =>
        /\ last.move.ret
             = Join(Join(<<DestCategory>>, SubOf(last.img)), Basename(last.move.ret))
        /\ ExtKept

\* C2 as the code has it: the returned reference is the destination folder
\* relative to the base directory (valid/vehicle_images_with_label,
\* invalid/vehicle_images, skipped/vehicle_images), then <sub>, then the file
\* name with the extension kept: <sub> is kept whole, nothing of the source
\* category is nested.
C2_SubdirAfterFolder ==
    MovedFromUnlabeled =>
        /\ last.move.ret
             = Join(Join(RelPath(last.dest_dir, BASE_DIR), SubOf(last.img)),
                    Basename(last.move.ret))
        /\ ExtKept

\* unlabeled/Goa/1.jpg was moved to invalid and is invalid/vehicle_images/Goa/1.jpg
C2_MovedGoa ==
    /\ MovedFromUnlabeled
    /\ last.op = "invalid_image"
    /\ last.img = <<"unlabeled", "/", "Goa", "/", "1", ".", "jpg">>
    /\ last.move.ret
         = <<"invalid", "/", "vehicle", "_", "images", "/", "Goa", "/", "1", ".", "jpg">>

(***************************************************************************)
(* C3.  The counts after a successful move.                                *)
(***************************************************************************)
\* The counts of the response are those before the move with one fewer in
\* the categories of lost and one more in the categories of gained
CountsChange(lost, gained) ==
    \A c \in Categories :
        last.response.counts[c] + (IF c \in lost THEN 1 ELSE 0)
            = CountsBefore[c] + (IF c \in gained THEN 1 ELSE 0)

ListedNow == Listed(files, dirs)

\* The reference under which the listing showed the source of the last move
OldRef == ListedRef(last.move.src)

\* C4: after a successful move of an image of the listing, the listing no
\* longer holds the old reference, it holds the returned reference (when the
\* two differ), and its other entries (the returned reference is where an
\* overwritten occupant was listed) are the same as before.
C4_ListingFollowsMove ==
    (Succeeded /\ SrcWasListed) =>
        /\ OldRef # last.move.ret => (OldRef \notin ListedNow /\ last.move.ret \in ListedNow)
        /\ ListedNow \ {last.move.ret} = ListedBefore \ {OldRef, last.move.ret}

\* The same for the images whose name has a base name before the extension:
\* for these the listing follows the move.
C4_ListingFollowsNamedImage ==
    (Succeeded /\ SrcWasImage) => C4_ListingFollowsMove

\* The listed image unlabeled/Goa/.jpg was labelled KA01: it is now the file
\* KA01 without extension, which the listing does not show
C4_ExtensionLost ==
    /\ Succeeded /\ SrcWasListed
    /\ last.img = <<"unlabeled", "/", "Goa", "/", ".", "jpg">>
    /\ Basename(last.move.ret) = <<"KA01">>
    /\ last.move.dst \in DOMAIN files
    /\ last.move.ret \notin ListedNow

(***************************************************************************)
(* C5.  A request for a source that does not exist changes nothing.        *)
(***************************************************************************)
\* os.path.exists of the source path of the last request, before it was served
SourceExisted ==
    Exists(Join(BASE_DIR, Replace(last.img, "\\", "/")), last.before.files, last.before.dirs)

\* C5: a move request whose source path does not exist leaves every file and
\* every directory as it was, so listing and counts are as before, whatever
\* the destination category and the label.
C5_MissingSourceChangesNothing ==
    (IsMove /\ ~SourceExisted) =>
        /\ last.move.ret = None
        /\ files = last.before.files
        /\ dirs = last.before.dirs
        /\ ListedNow = ListedBefore
        /\ last.response.counts = CountsBefore

\* A labelled move was requested for a reference in a subdirectory that the
\* destination folder does not have yet, and the source does not exist
C5_MissingSourceRequested ==
    /\ last.op = "update_label" /\ last.label = <<"KA01">>
    /\ ~SourceExisted
    /\ last.img = <<"unlabeled", "\\", "Goa", "\\", "1", ".", "jpg">>
    /\ ~Exists(Join(VALID_VEHICLE, <<"Goa">>), files, dirs)
    /\ files # <<>>

(***************************************************************************)
(* C6.  The move endpoints report a failed move.                           *)
(***************************************************************************)
\* C6: the response of a move endpoint carries success = true only if the file
\* was relocated to the returned new path; when move_image did not relocate
\* the file (it returned None), success is false.
C6_FailureIsReported ==
    IsMove => (last.response.success <=> last.move.ret # None)

\* A request for an image that is not there was answered success = true
C6_SuccessWithoutMove ==
    /\ IsMove /\ ~SourceExisted
    /\ last.response.success /\ last.response.new_path = None

(***************************************************************************)
(* C7.  References that leave the base directory.                          *)
(***************************************************************************)
\* The path string p, normalized, names something below the directory d
Below(p, d) == StartsWith(NormPath(p), d \o <<"/">>)

\* The reference of the last request resolves outside the base directory
LeavesBase == ~Below(Join(BASE_DIR, Replace(last.img, "\\", "/")), BASE_DIR)

\* C7: a move request whose reference, after separator normalization,
\* resolves outside the base directory is rejected before the filesystem is
\* touched: it returns no new path, no file or directory changes, so no file
\* outside the base directory is moved and none is placed outside the four
\* category folders.
C7_TraversalRejected ==
    (IsMove /\ LeavesBase) =>
        /\ last.move.ret = None
        /\ files = last.before.files
        /\ dirs = last.before.dirs

\* /app/outside/x.jpg, a file outside the base directory, was moved into
\* /app/datasets/outside, which is none of the four category folders
C7_OutsideFileMoved ==
    /\ IsMove /\ LeavesBase /\ Succeeded
    /\ last.move.src = <<<<"app">>, <<"outside">>, <<"x", ".", "jpg">>>>
    /\ last.move.src \notin DOMAIN files
    /\ last.move.dst \in DOMAIN files
    /\ \A c \in Categories : ~InCategory(last.move.dst, c)

(***************************************************************************)
(* C8.  A file at the destination path is overwritten.                     *)
(***************************************************************************)
\* C8: when another file is at the computed destination path (and the
\* operating system refuses no step), the move succeeds; afterwards the file
\* at that path is the moved image, the occupant's content is gone, the source
\* path is gone, and no other path has appeared (no suffixed duplicate).
C8_OccupantOverwritten ==
    (IsMove /\ SrcWasFile /\ DestWasOccupied /\ last.move.refused = "none") =>
        /\ last.move.ret # None
        /\ DOMAIN files = DOMAIN last.before.files \ {last.move.src}
        /\ files[last.move.dst] = last.before.files[last.move.src]
        /\ files[last.move.dst] # last.before.files[last.move.dst]
        /\ \A f \in DOMAIN files \ {last.move.dst} : files[f] = last.before.files[f]

\* unlabeled/Goa/1.jpg was marked invalid while invalid/vehicle_images/Goa/1.jpg
\* held another image
C8_MovedOntoOccupant ==
    /\ last.op = "invalid_image" /\ Succeeded /\ DestWasOccupied
    /\ last.before.files[last.move.src] = 1
    /\ last.before.files[last.move.dst] = 3
    /\ files[last.move.dst] = 1

(***************************************************************************)
(* C9.  The listing is sorted.                                             *)
(***************************************************************************)
\* The sequence of strings is in lexicographic order
IsSorted(l) == \A i \in 1..(Len(l) - 1) : StrLess(l[i], l[i + 1])

\* C9: the sequence get_all_images returns is sorted lexicographically by
\* path reference across the four categories (shown for the calls in which
\* every directory yields its entries in ascending order of name).
C9_ListingSorted ==
    (/\ last.op = "get_all_images"
     /\ last.response.images = get_all_images(last.before.files, last.before.dirs, "asc"))
        => IsSorted(last.response.images)

\* The listing put unlabeled/Goa/1.jpg before invalid/vehicle_images/Goa/1.jpg
C9_UnlabeledListedFirst ==
    /\ last.op = "get_all_images"
    /\ Len(last.response.images) = 2
    /\ last.response.images[1] = <<"unlabeled", "/", "Goa", "/", "1", ".", "jpg">>
    /\ StartsWith(last.response.images[2], <<"invalid", "/">>)

(***************************************************************************)
(* C10.  Labelling an unlabeled image and classifying the result.          *)
(***************************************************************************)
\* The last request successfully applied label L to an image listed under
\* unlabeled
LabelledFromUnlabeled == last.op = "update_label" /\ MovedFromUnlabeled

Unprefixed(ref) ==
    \A c \in Categories : ~StartsWith(Replace(ref, "\\", "/"), <<c, "/">>)

\* The file the reference of the last request names when it is resolved under
\* the unlabeled folder
UnderUnlabeled ==
    Resolve(Join(UNLABELED, Replace(last.img, "\\", "/")), last.before.dirs)

\* C11: a reference that begins with no category segment belongs to
\* unlabeled: the classifier returns the unlabeled folder for it, and a move
\* request with such a reference, the file existing under the unlabeled
\* folder, takes that file as its source and relocates it, so that it is no
\* longer at its old path.
C11_UnprefixedIsUnlabeled ==
    (/\ IsMove /\ Unprefixed(last.img)
     /\ UnderUnlabeled \in DOMAIN last.before.files
     /\ last.move.refused = "none") =>
        /\ get_base_folder(last.img) = UNLABELED
        /\ last.move.ret # None
        /\ last.move.src = UnderUnlabeled
        /\ UnderUnlabeled \notin DOMAIN files

\* Goa/1.jpg was requested while unlabeled/Goa/1.jpg existed: the source was
\* looked for at datasets/Goa/1.jpg, not found, and the image is where it was
C11_UnprefixedNotFound ==
    /\ IsMove /\ last.img = <<"Goa", "/", "1", ".", "jpg">>
    /\ get_base_folder(last.img) = UNLABELED
    /\ UnderUnlabeled \in DOMAIN last.before.files
    /\ last.move.outcome = "not_found"
    /\ last.move.src = NoEnt
    /\ UnderUnlabeled \in DOMAIN files

(***************************************************************************)
(* C12.  A move without a label keeps the filename.                        *)
(***************************************************************************)
\* The last request was a move for which the client gave no label
NoLabelGiven ==
    \/ last.op \in {"invalid_image", "skip_image"}
    \/ last.op = "valid_image" /\ last.label = None

\* The final segment of the source path of the last move
SrcName == last.move.src[Len(last.move.src)]

\* C12: after a successful move of an existing image without a label
\* (mark-invalid, mark-skipped, mark-valid with the label omitted) the final
\* segment of the returned reference, base filename and extension, is the
\* final segment of the source.
C12_NoLabelKeepsName ==
    (Succeeded /\ NoLabelGiven /\ SrcWasListed) =>
        /\ Basename(last.move.ret) = SrcName
        /\ last.move.dst[Len(last.move.dst)] = SrcName

\* The same for the requests that name the image with forward slashes, as
\* the listing does: for these the filename is kept.
C12_NoLabelKeepsNameAsListed ==
    (last.img \in ListedBefore) => C12_NoLabelKeepsName

\* unlabeled\Goa\1.jpg was marked valid without a label and the image is now
\* called unlabeled_Goa_1.jpg
C12_RenamedAfterReference ==
    /\ Succeeded /\ last.op = "valid_image" /\ last.label = None
    /\ last.img = <<"unlabeled", "\\", "Goa", "\\", "1", ".", "jpg">>
    /\ SrcName = <<"1", ".", "jpg">>
    /\ Basename(last.move.ret) = <<"unlabeled", "_", "Goa", "_", "1", ".", "jpg">>

(***************************************************************************)
(* C13.  The label sanitization is idempotent and the same in both         *)
(* label-producing operations.                                             *)
(***************************************************************************)
\* The last request gave a label to apply-label or mark-valid and succeeded
LabelApplied ==
    /\ last.op \in {"update_label", "valid_image"}
    /\ last.label # None /\ last.label # <<>>
    /\ Succeeded

\* The base filename of the returned reference, without the extension .jpg
NewBase == SubSeq(Basename(last.move.ret), 1, Len(Basename(last.move.ret)) - 2)

\* C13: for every label x, apply-label and mark-valid both name the image
\* sanitize(x) (with its extension), and sanitizing that name again changes
\* nothing: sanitize(sanitize(x)) = sanitize(x).
C13_SanitizeIdempotent ==
    LabelApplied =>
        /\ Basename(last.move.ret) = SafeLabel(last.label) \o <<".", "jpg">>
        /\ SafeLabel(NewBase) = NewBase
        /\ SafeLabel(SafeLabel(last.label)) = SafeLabel(last.label)

\* Mark-valid was given the label /\A and named the image __A.jpg
C13_BothSeparatorsCleaned ==
    /\ LabelApplied /\ last.op = "valid_image"
    /\ last.label = <<"/", "\\", "A">>
    /\ NewBase = <<"_", "_", "A">>

(***************************************************************************)
(* C14.  The crop preview.                                                 *)
(***************************************************************************)
IsPreview == last.op = "preview_crop"

\* The detection raised an error (opening the image, or running the model)
DetectorRaised == last.detection.outcome \in {"open_raises", "raises"}

\* The path did not exist, or the detector returned no region
NothingToShow == last.detection.outcome \in {"not_run", "none"}

MovedOntoItself == IsMove /\ SrcWasFile /\ last.move.dst = last.move.src

\* C15: a move request whose computed destination path equals its source
\* path never removes the image: afterwards the file is still at that path
\* and the four counts are unchanged.
C15_RemarkKeepsImage ==
    MovedOntoItself =>
        /\ last.move.src \in DOMAIN files
        /\ files[last.move.src] = last.before.files[last.move.src]
        /\ last.response.counts = CountsBefore

\* invalid/vehicle_images/Goa/1.jpg was marked invalid again: the file is
\* gone and invalid counts one fewer
C15_RemarkedImageGone ==
    /\ MovedOntoItself /\ last.op = "invalid_image"
    /\ last.img = <<"invalid", "/", "vehicle", "_", "images", "/", "Goa", "/", "1", ".", "jpg">>
    /\ last.move.refused = "none"
    /\ last.move.src \notin DOMAIN files
    /\ last.response.counts.invalid + 1 = CountsBefore.invalid

(***************************************************************************)
(* C16.  Chains of moves keep the identity subdirectory.                   *)
(***************************************************************************)
\* The folder of each category relative to the base directory, as a prefix
FolderPrefix == [c \in Categories |-> RelPath(Folder(c), BASE_DIR) \o <<"/">>]

\* The categories whose folder the reference begins with
FolderOf(ref) == {c \in Categories : StartsWith(ref, FolderPrefix[c])}

\* The identity subdirectory of a reference: what stands between the folder
\* of its category and the file name
IdSub(ref) ==
    LET c == CHOOSE c \in FolderOf(ref) : TRUE
    IN Dirname(From(ref, Len(RelPath(Folder(c), BASE_DIR)) + 1))

\* C16: in a chain of successful moves, each with the reference the previous
\* one returned, every returned reference names an existing file, the moved
\* one, and its identity subdirectory below the destination folder is the
\* subdirectory the reference of the request had, hence the one the image
\* had under unlabeled: no wrapper or category segment accumulates, the depth
\* does not grow.
C16_ChainKeepsSubdir ==
    Succeeded =>
        /\ Resolve(Join(BASE_DIR, last.move.ret), dirs) = last.move.dst
        /\ last.move.dst \in DOMAIN files
        /\ FolderOf(last.move.ret) = {DestCategory}
        /\ FolderOf(last.img) # {}
        /\ IdSub(last.move.ret) = IdSub(last.img)
        /\ IdSub(last.move.ret) \in ChainSubs
        /\ Len(last.move.dst) = Len(NonEmptyComps(last.dest_dir)) + 2

\* The third move of a chain took the image from skipped to valid
C16_ThirdMove ==
    /\ served = 3 /\ Succeeded
    /\ last.op = "valid_image"
    /\ StartsWith(last.img, <<"skipped", "/">>)
    /\ last.move.ret
         = <<"valid", "/", "vehicle", "_", "images", "_", "with", "_", "label", "/",
             "Goa", "/", "1", ".", "jpg">>


(***************************************************************************)
(* C17: two requests racing for one image.                                 *)
(***************************************************************************)
BothDone == threads # NoThreads /\ \A t \in Threads : threads[t].pc = "done"

\* Where the image the two requests were sent for is now
Copies == {c \in DOMAIN files : files[c] = threads[1].content}

\* Neither request asks for the place the image is already in
NoneOntoItself ==
    \A t \in Threads :
        Resolve(DstFullPath(t), dirs) # Resolve(SrcFullPath(t), dirs)

\* C17: when two move requests for the same image have both finished,
\* whatever the interleaving of their filesystem steps and whatever their
\* destinations and labels, the image is at exactly one location.
C17_RaceKeepsImage ==
    BothDone /\ NoneOntoItself => Cardinality(Copies) = 1

\* Both requests have finished, one returned the new reference, the other
\* failed, and the image is nowhere
C17_ImageLostInRace ==
    /\ BothDone
    /\ NoneOntoItself
    /\ Copies = {}
    /\ \E t \in Threads : threads[t].ret # None
    /\ \E t \in Threads : threads[t].ret = None


(***************************************************************************)
(* C18: POST /images/label with a label that cleans to the empty string.   *)
(***************************************************************************)
\* The request carried such a label for an image named as the listing shows
\* it, and its move succeeded
EmptyLabelApplied ==
    /\ IsMove /\ last.op = "update_label"
    /\ SafeLabel(last.label) = <<>>
    /\ Succeeded
    /\ RequestedAsListed

\* The filename the reference of the request names
RequestedName == Basename(Replace(last.img, "\\", "/"))

ImageSuffixes ==
    {<<".", e>> : e \in {"png", "jpg", "jpeg", "gif", "PNG", "JPG", "JPEG", "GIF"}}

OnDisk(c) ==
    {f \in DOMAIN files :
        /\ InCategory(f, c)
        /\ \E sfx \in ImageSuffixes : EndsWith(f[Len(f)], sfx)}

\* The entries of a listing that lie under the folder of category c
EntriesOf(listing, c) == SelectSeq(listing, LAMBDA ref : FolderOf(ref) = {c})

\* The folder of category c is not there
RootMissing(c) ==
    LET top == Resolve(Folder(c), dirs) IN top = NoEnt \/ ~IsDir(top, dirs)

\* C19: in every reachable state, for each category the count equals the
\* number of listing entries under the category's folder (every entry lies
\* under exactly one folder and none is listed twice) and the number of image
\* files on disk under that folder; a missing folder contributes zero; the
\* counts of a move response and of GET /images/counts are those of the
\* filesystem the request left behind, and the listing returned is a listing
\* of it.
C19_InventoryAgrees ==
    LET counts == get_image_counts(files, dirs)
    IN /\ \A order \in ScanOrders :
             LET listing == get_all_images(files, dirs, order)
             IN /\ \A c \in Categories : counts[c] = Len(EntriesOf(listing, c))
                /\ \A i \in 1..Len(listing) : Cardinality(FolderOf(listing[i])) = 1
                /\ \A i, j \in 1..Len(listing) : listing[i] = listing[j] => i = j
       /\ \A c \in Categories :
             /\ counts[c] = Cardinality(OnDisk(c))
             /\ RootMissing(c) => counts[c] = 0
       /\ (IsMove \/ last.op = "get_counts") =>
             /\ last.response.status = 200
             /\ last.response.counts = counts
       /\ last.op = "get_all_images" =>
             /\ last.response.status = 200
             /\ \E order \in ScanOrders :
                   last.response.images = get_all_images(files, dirs, order)

\* An image was moved from unlabeled to valid, whose folder the move made;
\* the response counts it there, and counts zero for the folders that are
\* still missing
C19_CountedAfterLazyMove ==
    /\ Succeeded
    /\ Resolve(VALID_VEHICLE, last.before.dirs) = NoEnt
    /\ RootMissing("invalid") /\ RootMissing("skipped")
    /\ last.response.counts
         = [unlabeled |-> 0, valid |-> 1, invalid |-> 0, skipped |-> 0]
    /\ Cardinality(OnDisk("valid")) = 1

====
